---- MODULE Spec2Model ----
(***************************************************************************)
(* dbfreader (cmd/dbfreader/main.go): the command line front end that      *)
(* opens a FoxPro DBF file, narrates its contents on the console and       *)
(* optionally exports the records to a CSV file.                           *)
(*                                                                         *)
(* The model follows main() and exportToCSV() statement by statement (pc   *)
(* is the position in the program) and formatValueForCSV() as an operator. *)
(* The CSV sink is encoding/csv.Writer over bufio.Writer over *os.File:    *)
(* rows are accepted into a buffer and reach the file only when the buffer *)
(* is flushed; a failed write of the file sticks in the buffer as an error *)
(* that later writes return.                                               *)
(*                                                                         *)
(* Abstractions: a data row is identified by the index of its record       *)
(* (<<"R", i>>); the header is HdrLen buffer-sized pieces <<"H", j>>; the  *)
(* buffer capacity is counted in such pieces.  The text of a row is the    *)
(* subject of SpecFmt, which applies formatValueForCSV to field values.    *)
(***************************************************************************)
EXTENDS Integers, Sequences, FiniteSets

\* ---------------------------------------------------------------- bounds
MaxRecords == 3     \* records in the source
UintBits   == 2     \* width of the uint32 counters i, totalRecords, processedRecords
MaxArgs    == 2     \* command line arguments after the file name
BufCap     == 2     \* capacity of the bufio buffer, in pieces

\* ------------------------------------------------------ program constants
DisplayMax    == 10     \* maxRecords := uint32(10)
ProgressEvery == 1000   \* totalRecords > 1000 && processedRecords%1000 == 0

Modulus == 2 ^ UintBits
MaxU    == Modulus - 1
Min(a, b) == IF a < b THEN a ELSE b

\* What RecordAt(i) gives for a record: a live record, a record with the
\* deletion flag set, or an error.
RecordKinds == {"ok", "deleted", "fail"}

\* The sources the program may be given: every pattern of deletion flags and
\* fetch failures over at most MaxRecords records (a count fits a uint32).
RECURSIVE SeqsOf(_, _)
SeqsOf(S, n) ==
    IF n = 0 THEN {<< >>}
    ELSE LET shorter == SeqsOf(S, n - 1)
         IN  shorter \cup {Append(s, x) : s \in {t \in shorter : Len(t) = n - 1}, x \in S}
Sources == SeqsOf(RecordKinds, Min(MaxRecords, MaxU))

\* os.Args[2:], one argument at a time.
ArgTokens == {"BIG5", "utf8", "win1250", "latin2",
              "--csv", "--csv=out.csv", "--csvx", "--no-display", "--verbose"}

VARIABLES
    pc,                 \* position in main / exportToCSV
    argIdx,             \* i of the argument loop (0 outside the loop)
    encoding,           \* main: encoding
    encGiven,           \* history: line 49 assigned encoding from an argument
    csvOutput,          \* main: csvOutput ("" | "derived" | "out.csv")
    noDisplay,          \* main: noDisplay
    decoder,            \* the decoder handed to dbf.OpenFile ("none" before)
    records,            \* the opened source: RecordAt(i) is records[i+1]
    console,            \* what was printed (fmt.Print*, log.Print*, log.Fatalf)
    exit,               \* exit status: 0 | 1 (-1 while running)
    reportedCount,      \* the %d of "Successfully exported %d records" (-1: none)
    dispI,              \* i of the display loop
    \* exportToCSV
    fileState,          \* "none" | "open" | "closed"
    file,               \* pieces on disk
    buf,                \* pieces held by the bufio.Writer
    bufErr,             \* bufio.Writer.err: a write of the file failed
    hdrLen,             \* size of the header row in pieces
    i,                  \* loop index
    totalRecords,
    processedRecords,
    expErr,             \* what exportToCSV returns: "none" (running) | "nil" | "create" | "header" | "row"
    fetched,            \* history: the indices handed to RecordAt by the export loop
    accepted,           \* history: pieces of the rows writer.Write accepted (returned nil)
    deferLog,           \* history: deferred calls in the order they ran
    flushOnClosed,      \* history: a Flush ran while the file was not open
    \* formatValueForCSV
    fmtPc,
    fmtField,           \* dbf.FieldHeader: [type, decimals]
    fmtValue,           \* the field value
    fmtOut              \* the returned string, as a sequence of characters

mainVars == <<pc, argIdx, encoding, encGiven, csvOutput, noDisplay, decoder, records,
              console, exit, reportedCount, dispI>>
expVars  == <<fileState, file, buf, bufErr, hdrLen, i, totalRecords, processedRecords,
              expErr, fetched, accepted, deferLog, flushOnClosed>>
\* main's variables other than pc and console
argVars  == <<argIdx, encoding, encGiven, csvOutput, noDisplay, decoder, records, exit,
              reportedCount, dispI>>
fmtVars  == <<fmtPc, fmtField, fmtValue, fmtOut>>
vars     == <<mainVars, expVars, fmtVars>>

\* ------------------------------------------------------------- the console
Say(tag)        == Append(console, <<tag, -1>>)
SayIdx(tag, n)  == Append(console, <<tag, n>>)
Narrate(tag)    == IF ~noDisplay THEN Say(tag) ELSE console

\* ================================================================== main
MainInit ==
    /\ pc = "start" /\ argIdx = 0
    /\ encoding = "" /\ encGiven = FALSE /\ csvOutput = "" /\ noDisplay = FALSE
    /\ decoder = "none" /\ records = << >> /\ console = << >>
    /\ exit = -1 /\ reportedCount = -1 /\ dispI = 0

ExpInit ==
    /\ fileState = "none" /\ file = << >> /\ buf = << >> /\ bufErr = FALSE
    /\ hdrLen = 0 /\ i = 0 /\ totalRecords = 0 /\ processedRecords = 0
    /\ expErr = "none" /\ fetched = << >> /\ accepted = << >>
    /\ deferLog = << >> /\ flushOnClosed = FALSE

FmtIdle ==
    /\ fmtPc = "idle" /\ fmtField = [type |-> "C", decimals |-> 0]
    /\ fmtValue = [kind |-> "nil"] /\ fmtOut = << >>

Init == MainInit /\ ExpInit /\ FmtIdle

\* lines 17-28: no file argument
MainUsage ==
    /\ pc = "start"
    /\ console' = Say("usage")
    /\ exit' = 1
    /\ pc' = "exit"
    /\ UNCHANGED <<argIdx, encoding, encGiven, csvOutput, noDisplay, decoder, records,
                   reportedCount, dispI>>
    /\ UNCHANGED <<expVars, fmtVars>>

\* lines 30-33
DefaultEncoding == "big5"

MainArgs ==
    /\ pc = "start"
    /\ encoding' = DefaultEncoding
    /\ csvOutput' = ""
    /\ noDisplay' = FALSE
    /\ argIdx' = 2
    /\ pc' = "parse"
    /\ UNCHANGED <<encGiven, decoder, records, console, exit, reportedCount, dispI>>
    /\ UNCHANGED <<expVars, fmtVars>>

\* strings.HasPrefix(arg, p) and strings.ToLower(arg) on the argument tokens
HasPrefix(arg, p) ==
    CASE p = "--csv=" -> arg \in {"--csv=out.csv"}
      [] p = "--csv"  -> arg \in {"--csv", "--csv=out.csv", "--csvx"}
      [] p = "--"     -> arg \in {"--csv", "--csv=out.csv", "--csvx", "--no-display", "--verbose"}
ToLower(arg) == IF arg = "BIG5" THEN "big5" ELSE arg
TrimCsvPrefix(arg) == IF arg = "--csv=out.csv" THEN "out.csv" ELSE arg

\* lines 36-51: one turn of the argument loop
ParseArg ==
    /\ pc = "parse"
    /\ argIdx < 2 + MaxArgs
    /\ \E arg \in ArgTokens :
         /\ csvOutput' = IF HasPrefix(arg, "--csv")
                         THEN IF arg = "--csv" THEN "derived"
                              ELSE IF HasPrefix(arg, "--csv=") THEN TrimCsvPrefix(arg)
                              ELSE csvOutput
                         ELSE csvOutput
         /\ noDisplay' = IF ~HasPrefix(arg, "--csv") /\ arg = "--no-display"
                         THEN TRUE ELSE noDisplay
         /\ LET isEnc == /\ ~HasPrefix(arg, "--csv") /\ arg # "--no-display"
                         /\ argIdx = 2 /\ ~HasPrefix(arg, "--")
            IN  /\ encoding' = IF isEnc THEN ToLower(arg) ELSE encoding
                /\ encGiven' = (encGiven \/ isEnc)
    /\ argIdx' = argIdx + 1
    /\ UNCHANGED <<pc, decoder, records, console, exit, reportedCount, dispI>>
    /\ UNCHANGED <<expVars, fmtVars>>

\* lines 53-58: the loop is over (i == len(os.Args))
ParseEnd ==
    /\ pc = "parse"
    /\ console' = IF ~noDisplay
                  THEN IF csvOutput # ""
                       THEN Append(Say("opening"), <<"willExport", -1>>)
                       ELSE Say("opening")
                  ELSE console
    /\ argIdx' = 0
    /\ pc' = "decoder"
    /\ UNCHANGED <<encoding, encGiven, csvOutput, noDisplay, decoder, records, exit,
                   reportedCount, dispI>>
    /\ UNCHANGED <<expVars, fmtVars>>

\* lines 60-72
ChooseDecoder ==
    /\ pc = "decoder"
    /\ decoder' = CASE encoding = "big5"    -> "big5"
                    [] encoding = "utf8"    -> "utf8"
                    [] encoding = "win1250" -> "win1250"
                    [] OTHER                -> "win1250"
    /\ console' = IF encoding \notin {"big5", "utf8", "win1250"}
                  THEN Say("unsupported") ELSE console
    /\ pc' = "open"
    /\ UNCHANGED <<argIdx, encoding, encGiven, csvOutput, noDisplay, records, exit,
                   reportedCount, dispI>>
    /\ UNCHANGED <<expVars, fmtVars>>

\* lines 74-79
OpenFile ==
    /\ pc = "open"
    /\ \/ /\ console' = Say("fatalOpen")          \* log.Fatalf: os.Exit(1)
          /\ exit' = 1
          /\ pc' = "exit"
          /\ UNCHANGED records
       \/ /\ \E src \in Sources : records' = src
          /\ pc' = "info"
          /\ UNCHANGED <<console, exit>>
    /\ UNCHANGED <<argIdx, encoding, encGiven, csvOutput, noDisplay, decoder,
                   reportedCount, dispI>>
    /\ UNCHANGED <<expVars, fmtVars>>

NumRecords == Len(records)

\* d.RecordAt(n)
RecordAt(n) == IF n < NumRecords THEN records[n + 1] ELSE "fail"

\* lines 81-89
PrintInfo ==
    /\ pc = "info"
    /\ console' = Narrate("info")
    /\ pc' = IF csvOutput # "" THEN "export" ELSE "fields"
    /\ UNCHANGED <<argIdx, encoding, encGiven, csvOutput, noDisplay, decoder, records,
                   exit, reportedCount, dispI>>
    /\ UNCHANGED <<expVars, fmtVars>>

\* ============================================================ the CSV sink
\* A writer is [buf, file, err]: the bufio buffer, the file, the sticky error.
Writer == [buf |-> buf, file |-> file, err |-> bufErr]

\* bufio.Writer.Flush with a non-empty buffer and no error yet: the write of
\* the file takes everything, or fails after taking k pieces (a short write);
\* what was not taken stays in the buffer and the error sticks.
FlushOutcomes(w) ==
    {[buf |-> << >>, file |-> w.file \o w.buf, err |-> FALSE]}
      \cup
    {[buf  |-> SubSeq(w.buf, k + 1, Len(w.buf)),
      file |-> w.file \o SubSeq(w.buf, 1, k),
      err  |-> TRUE] : k \in 0 .. Len(w.buf) - 1}

\* bufio.Writer.Flush
Flush(w) ==
    IF w.err \/ Len(w.buf) = 0 THEN {w} ELSE FlushOutcomes(w)

\* bufio.Writer.WriteString / WriteByte of one piece: a full buffer is
\* flushed first; with the error set nothing is written.
WritePiece(w, c) ==
    IF w.err THEN {w}
    ELSE IF Len(w.buf) >= BufCap
         THEN {IF o.err THEN o ELSE [o EXCEPT !.buf = Append(@, c)] : o \in Flush(w)}
         ELSE {[w EXCEPT !.buf = Append(@, c)]}

\* csv.Writer.Write of a row: its pieces in order, stopping at the first
\* error; it returns the error of the buffer (nil iff ~err).
RECURSIVE WriteRow(_, _)
WriteRow(w, row) ==
    IF row = << >> \/ w.err THEN {w}
    ELSE UNION {WriteRow(o, Tail(row)) : o \in WritePiece(w, Head(row))}

HeaderRow(n) == [j \in 1 .. n |-> <<"H", j>>]
DataRow(n)   == << <<"R", n>> >>

\* The header may be larger than the buffer.
HdrMax == BufCap + 1

\* lines 204-217: os.Create, csv.NewWriter, the two defers
ExportCreate ==
    /\ pc = "export"
    /\ console' = Narrate("exporting")
    /\ \/ /\ expErr' = "create"
          /\ pc' = "returned"
          /\ UNCHANGED <<fileState, file, buf, bufErr, hdrLen>>
       \/ /\ fileState' = "open"
          /\ file' = << >>
          /\ buf' = << >>
          /\ bufErr' = FALSE
          /\ \E h \in 1 .. HdrMax : hdrLen' = h
          /\ pc' = "header"
          /\ UNCHANGED expErr
    /\ UNCHANGED <<i, totalRecords, processedRecords, fetched, accepted, deferLog,
                   flushOnClosed>>
    /\ UNCHANGED <<argIdx, encoding, encGiven, csvOutput, noDisplay, decoder, records,
                   exit, reportedCount, dispI>>
    /\ UNCHANGED fmtVars

\* lines 219-227: the header row, then the loop's variables
ExportHeader ==
    /\ pc = "header"
    /\ \E o \in WriteRow(Writer, HeaderRow(hdrLen)) :
         /\ buf' = o.buf /\ file' = o.file /\ bufErr' = o.err
         /\ IF o.err
            THEN /\ expErr' = "header"
                 /\ pc' = "flush"
                 /\ UNCHANGED <<i, totalRecords, processedRecords, accepted>>
            ELSE /\ accepted' = accepted \o HeaderRow(hdrLen)
                 /\ totalRecords' = NumRecords % Modulus
                 /\ processedRecords' = 0
                 /\ i' = 0
                 /\ pc' = "loop"
                 /\ UNCHANGED expErr
    /\ UNCHANGED <<fileState, hdrLen, fetched, deferLog, flushOnClosed>>
    /\ UNCHANGED <<argVars, console, fmtVars>>

\* i++ on a uint32
NextIndex(n) == (n + 1) % Modulus

\* ExportFetchFail with the failed index fetched again (a retry)
ExportFetchFail_Retry ==
    /\ pc = "loop"
    /\ i < totalRecords
    /\ RecordAt(i) = "fail"
    /\ fetched' = Append(fetched, i)
    /\ console' = IF ~noDisplay THEN SayIdx("logExportReadErr", i) ELSE console
    /\ UNCHANGED <<pc, fileState, file, buf, bufErr, hdrLen, i, totalRecords,
                   processedRecords, expErr, accepted, deferLog, flushOnClosed>>
    /\ UNCHANGED <<argVars, fmtVars>>

\* ExportFetchFail with the fetch error returned to the caller
ExportFetchFail_Abort ==
    /\ pc = "loop"
    /\ i < totalRecords
    /\ RecordAt(i) = "fail"
    /\ fetched' = Append(fetched, i)
    /\ console' = IF ~noDisplay THEN SayIdx("logExportReadErr", i) ELSE console
    /\ expErr' = "fetch"
    /\ pc' = "flush"
    /\ UNCHANGED <<fileState, file, buf, bufErr, hdrLen, i, totalRecords,
                   processedRecords, accepted, deferLog, flushOnClosed>>
    /\ UNCHANGED <<argVars, fmtVars>>

\* lines 229-236: RecordAt(i) fails
ExportFetchFail ==
    /\ pc = "loop"
    /\ i < totalRecords
    /\ RecordAt(i) = "fail"
    /\ fetched' = Append(fetched, i)
    /\ console' = IF ~noDisplay THEN SayIdx("logExportReadErr", i) ELSE console
    /\ i' = NextIndex(i)
    /\ UNCHANGED <<pc, fileState, file, buf, bufErr, hdrLen, totalRecords,
                   processedRecords, expErr, accepted, deferLog, flushOnClosed>>
    /\ UNCHANGED <<argIdx, encoding, encGiven, csvOutput, noDisplay, decoder, records,
                   exit, reportedCount, dispI>>
    /\ UNCHANGED fmtVars

\* Deleted with the deletion flag ignored
Deleted_Never(rec) == FALSE

\* line 239: record.Deleted
Deleted(rec) == rec = "deleted"

\* lines 229-241: the record is fetched and is deleted
ExportSkipDeleted ==
    /\ pc = "loop"
    /\ i < totalRecords
    /\ RecordAt(i) # "fail"
    /\ Deleted(RecordAt(i))
    /\ fetched' = Append(fetched, i)
    /\ i' = NextIndex(i)
    /\ UNCHANGED <<pc, fileState, file, buf, bufErr, hdrLen, totalRecords,
                   processedRecords, expErr, accepted, deferLog, flushOnClosed>>
    /\ UNCHANGED <<argVars, console, fmtVars>>

\* lines 229-261: the record is fetched, formatted and written
ExportWriteRow ==
    /\ pc = "loop"
    /\ i < totalRecords
    /\ RecordAt(i) # "fail"
    /\ ~Deleted(RecordAt(i))
    /\ fetched' = Append(fetched, i)
    /\ \E o \in WriteRow(Writer, DataRow(i)) :
         /\ buf' = o.buf /\ file' = o.file /\ bufErr' = o.err
         /\ IF o.err
            THEN /\ expErr' = "row"
                 /\ pc' = "flush"
                 /\ UNCHANGED <<i, processedRecords, accepted, console>>
            ELSE /\ accepted' = accepted \o DataRow(i)
                 /\ processedRecords' = (processedRecords + 1) % Modulus
                 /\ console' = IF /\ ~noDisplay
                                  /\ totalRecords > ProgressEvery
                                  /\ processedRecords' % ProgressEvery = 0
                               THEN Say("progress") ELSE console
                 /\ i' = NextIndex(i)
                 /\ UNCHANGED <<pc, expErr>>
    /\ UNCHANGED <<fileState, hdrLen, totalRecords, deferLog, flushOnClosed>>
    /\ UNCHANGED <<argIdx, encoding, encGiven, csvOutput, noDisplay, decoder, records,
                   exit, reportedCount, dispI>>
    /\ UNCHANGED fmtVars

\* lines 229, 263: the loop condition fails, return nil
ExportLoopExit ==
    /\ pc = "loop"
    /\ ~(i < totalRecords)
    /\ expErr' = "nil"
    /\ pc' = "flush"
    /\ UNCHANGED <<fileState, file, buf, bufErr, hdrLen, i, totalRecords,
                   processedRecords, fetched, accepted, deferLog, flushOnClosed>>
    /\ UNCHANGED <<argVars, console, fmtVars>>

\* line 217: defer writer.Flush(), the last deferred, runs first; what the
\* flush returns is dropped and writer.Error() is not asked
ExportDeferFlush ==
    /\ pc = "flush"
    /\ \E o \in Flush(Writer) :
         buf' = o.buf /\ file' = o.file /\ bufErr' = o.err
    /\ deferLog' = Append(deferLog, "flush")
    /\ flushOnClosed' = (flushOnClosed \/ fileState # "open")
    /\ pc' = "close"
    /\ UNCHANGED <<fileState, hdrLen, i, totalRecords, processedRecords, expErr,
                   fetched, accepted>>
    /\ UNCHANGED <<argVars, console, fmtVars>>

\* ExportDeferClose with the file closed on the normal return only
ExportDeferClose_OnSuccess ==
    /\ pc = "close"
    /\ fileState' = IF expErr = "nil" THEN "closed" ELSE fileState
    /\ deferLog' = Append(deferLog, "close")
    /\ pc' = "returned"
    /\ UNCHANGED <<file, buf, bufErr, hdrLen, i, totalRecords, processedRecords, expErr,
                   fetched, accepted, flushOnClosed>>
    /\ UNCHANGED <<argVars, console, fmtVars>>

\* line 214: defer file.Close()
ExportDeferClose ==
    /\ pc = "close"
    /\ fileState' = "closed"
    /\ deferLog' = Append(deferLog, "close")
    /\ pc' = "returned"
    /\ UNCHANGED <<file, buf, bufErr, hdrLen, i, totalRecords, processedRecords, expErr,
                   fetched, accepted, flushOnClosed>>
    /\ UNCHANGED <<argVars, console, fmtVars>>

\* lines 90-100: back in main
MainAfterExport ==
    /\ pc = "returned"
    /\ IF expErr # "nil"
       THEN /\ console' = Say("fatalExport")       \* log.Fatalf: os.Exit(1)
            /\ exit' = 1
            /\ pc' = "exit"
            /\ UNCHANGED reportedCount
       ELSE IF ~noDisplay
            THEN /\ console' = Say("success")
                 /\ reportedCount' = NumRecords
                 /\ pc' = "fields"
                 /\ UNCHANGED exit
            ELSE /\ exit' = 0                       \* return
                 /\ pc' = "exit"
                 /\ UNCHANGED <<console, reportedCount>>
    /\ UNCHANGED <<argIdx, encoding, encGiven, csvOutput, noDisplay, decoder, records,
                   dispI>>
    /\ UNCHANGED <<expVars, fmtVars>>

\* ============================================================ the display
\* lines 102-116
DisplayFields ==
    /\ pc = "fields"
    /\ IF ~noDisplay
       THEN /\ console' = Append(Say("fields"), <<"firstN", Min(NumRecords, DisplayMax)>>)
            /\ dispI' = 0
            /\ pc' = "display"
       ELSE /\ pc' = "nav"
            /\ UNCHANGED <<console, dispI>>
    /\ UNCHANGED <<argIdx, encoding, encGiven, csvOutput, noDisplay, decoder, records,
                   exit, reportedCount>>
    /\ UNCHANGED <<expVars, fmtVars>>

\* lines 117-157: one turn of the display loop
DisplayRecord ==
    /\ pc = "display"
    /\ dispI < Min(NumRecords, DisplayMax)
    /\ console' = CASE RecordAt(dispI) = "fail" -> SayIdx("logReadErr", dispI)
                    [] Deleted(RecordAt(dispI)) -> SayIdx("recDeleted", dispI)
                    [] OTHER                    -> SayIdx("record", dispI)
    /\ dispI' = NextIndex(dispI)
    /\ UNCHANGED <<pc, argIdx, encoding, encGiven, csvOutput, noDisplay, decoder, records,
                   exit, reportedCount>>
    /\ UNCHANGED <<expVars, fmtVars>>

DisplayLoopExit ==
    /\ pc = "display"
    /\ ~(dispI < Min(NumRecords, DisplayMax))
    /\ pc' = "nav"
    /\ UNCHANGED <<argIdx, encoding, encGiven, csvOutput, noDisplay, decoder, records,
                   console, exit, reportedCount, dispI>>
    /\ UNCHANGED <<expVars, fmtVars>>

\* lines 160-196: record navigation and the JSON of record 0; the reader's
\* GoTo, Field and RecordToJSON fail when record 0 cannot be read
Navigation ==
    /\ pc = "nav"
    /\ console' = IF ~noDisplay /\ NumRecords > 0
                  THEN IF RecordAt(0) = "fail"
                       THEN Append(Append(Say("nav"), <<"logNavErr", 0>>), <<"logJsonErr", 0>>)
                       ELSE Append(Say("nav"), <<"json", 0>>)
                  ELSE console
    /\ pc' = "done"
    /\ UNCHANGED <<argIdx, encoding, encGiven, csvOutput, noDisplay, decoder, records,
                   exit, reportedCount, dispI>>
    /\ UNCHANGED <<expVars, fmtVars>>

\* lines 198-201
Done ==
    /\ pc = "done"
    /\ console' = Narrate("done")
    /\ exit' = 0
    /\ pc' = "exit"
    /\ UNCHANGED <<argIdx, encoding, encGiven, csvOutput, noDisplay, decoder, records,
                   reportedCount, dispI>>
    /\ UNCHANGED <<expVars, fmtVars>>

Next ==
    \/ MainUsage \/ MainArgs \/ ParseArg \/ ParseEnd \/ ChooseDecoder \/ OpenFile
    \/ PrintInfo
    \/ ExportCreate \/ ExportHeader \/ ExportFetchFail \/ ExportSkipDeleted
    \/ ExportWriteRow \/ ExportLoopExit \/ ExportDeferFlush \/ ExportDeferClose
    \/ MainAfterExport
    \/ DisplayFields \/ DisplayRecord \/ DisplayLoopExit \/ Navigation \/ Done

Spec == Init /\ [][Next]_vars

\* main and exportToCSV are one sequential program: it keeps running until
\* the process exits.
FairSpec == Spec /\ WF_vars(Next)

\* ====================================================== formatValueForCSV
\* Strings are sequences of one-character strings.
MaxMant     == 17    \* float64 values are k / 2^FracBits, k <= MaxMant, and NaN, +Inf, -Inf
FracBits    == 3
MaxInt      == 12    \* int64 values are -MaxInt .. MaxInt
MaxDecimals == 4     \* FieldHeader.Decimals (a uint8) is 0 .. MaxDecimals
MaxStr      == 3     \* longest string value

DigitChars == <<"0", "1", "2", "3", "4", "5", "6", "7", "8", "9">>
IsDigit(c) == \E d \in 1 .. 10 : DigitChars[d] = c

RECURSIVE NatDigits(_)
NatDigits(n) ==
    IF n < 10 THEN <<DigitChars[n + 1]>>
    ELSE NatDigits(n \div 10) \o <<DigitChars[(n % 10) + 1]>>

RECURSIVE Zeros(_)
Zeros(n) == IF n <= 0 THEN << >> ELSE <<"0">> \o Zeros(n - 1)

\* n in decimal, padded with zeros on the left to width w
Padded(n, w) == Zeros(w - Len(NatDigits(n))) \o NatDigits(n)

RECURSIVE StripZeros(_)
StripZeros(s) ==
    IF s # << >> /\ s[Len(s)] = "0" THEN StripZeros(SubSeq(s, 1, Len(s) - 1)) ELSE s

\* float64 values: [class, neg, mant], the value being mant / 2^FracBits
Floats ==
    [class : {"fin"}, neg : BOOLEAN, mant : 0 .. MaxMant]
      \cup [class : {"nan"}, neg : {FALSE}, mant : {0}]
      \cup [class : {"inf"}, neg : BOOLEAN, mant : {0}]
ZeroFloat == [class |-> "fin", neg |-> FALSE, mant |-> 0]

\* time.Time values: the zero time and a calendar time
ZeroTime == [y |-> 1, mo |-> 1, d |-> 1, h |-> 0, mi |-> 0, s |-> 0]
Times == {ZeroTime, [y |-> 2024, mo |-> 2, d |-> 9, h |-> 13, mi |-> 5, s |-> 7]}

Strings == SeqsOf({" ", "a"}, MaxStr)

\* The values a record hands out (interface{}).
Values ==
    {[kind |-> "nil"]}
      \cup [kind : {"float"}, f : Floats]
      \cup [kind : {"int"}, n : (0 - MaxInt) .. MaxInt]
      \cup [kind : {"bool"}, b : BOOLEAN]
      \cup [kind : {"string"}, s : Strings]
      \cup [kind : {"time"}, t : Times]

\* The field types formatValueForCSV names (its default branch, fmt.Sprintf
\* of a value of an unnamed type, is left out).
FieldTypes == {"C", "N", "F", "L", "D", "T", "M", "I", "B", "Y"}
FieldHeaders == [type : FieldTypes, decimals : 0 .. MaxDecimals]

\* The reader's casts: the value if it has the type, the type's zero value if not.
ToFloat64(v) == IF v.kind = "float" THEN v.f ELSE ZeroFloat
ToInt64(v)   == IF v.kind = "int" THEN v.n ELSE 0
ToBool(v)    == IF v.kind = "bool" THEN v.b ELSE FALSE
ToString(v)  == IF v.kind = "string" THEN v.s ELSE << >>
ToTime(v)    == IF v.kind = "time" THEN v.t ELSE ZeroTime

RECURSIVE TrimLeft(_)
TrimLeft(s) == IF s # << >> /\ Head(s) = " " THEN TrimLeft(Tail(s)) ELSE s
RECURSIVE TrimRight(_)
TrimRight(s) ==
    IF s # << >> /\ s[Len(s)] = " " THEN TrimRight(SubSeq(s, 1, Len(s) - 1)) ELSE s
ToTrimmedString(v) == TrimRight(TrimLeft(ToString(v)))

\* strconv.FormatInt(n, 10)
FormatInt(n) == IF n < 0 THEN <<"-">> \o NatDigits(0 - n) ELSE NatDigits(n)

\* strconv.FormatFloat(f, 'f', prec, 64).  The value mant / 2^FracBits is the
\* decimal mant * 5^FracBits with FracBits fraction digits, exactly; prec >= 0
\* rounds it to prec fraction digits, halves to even; prec = -1 prints the
\* shortest decimal that reads back as f, here the exact one without
\* trailing zeros.
FormatFloat(f, prec) ==
    IF f.class = "nan" THEN <<"N", "a", "N">>
    ELSE IF f.class = "inf" THEN <<(IF f.neg THEN "-" ELSE "+"), "I", "n", "f">>
    ELSE
      LET exact == f.mant * (5 ^ FracBits)
          sign  == IF f.neg THEN <<"-">> ELSE << >>
      IN  IF prec < 0
          THEN LET frac == StripZeros(Padded(exact % (10 ^ FracBits), FracBits))
               IN  sign \o NatDigits(exact \div (10 ^ FracBits))
                        \o (IF frac = << >> THEN << >> ELSE <<".">> \o frac)
          ELSE LET cut     == 10 ^ (FracBits - prec)
                   q       == exact \div cut
                   r       == exact % cut
                   rounded == IF prec >= FracBits
                              THEN exact * (10 ^ (prec - FracBits))
                              ELSE IF 2 * r > cut \/ (2 * r = cut /\ q % 2 = 1)
                                   THEN q + 1 ELSE q
               IN  sign \o NatDigits(rounded \div (10 ^ prec))
                        \o (IF prec > 0
                            THEN <<".">> \o Padded(rounded % (10 ^ prec), prec)
                            ELSE << >>)

\* t.Format("2006-01-02") and t.Format("2006-01-02 15:04:05")
FormatDate(t) == Padded(t.y, 4) \o <<"-">> \o Padded(t.mo, 2) \o <<"-">> \o Padded(t.d, 2)
FormatDateTime(t) ==
    FormatDate(t) \o <<" ">> \o Padded(t.h, 2) \o <<":">> \o Padded(t.mi, 2)
                  \o <<":">> \o Padded(t.s, 2)

\* FormatNumeric with the console's two decimals
FormatNumeric_TwoDecimals(value, field) ==
    IF field.decimals = 0
    THEN FormatInt(ToInt64(value))
    ELSE FormatFloat(ToFloat64(value), 2)

\* lines 275-279: case "N"
FormatNumeric(value, field) ==
    IF field.decimals = 0
    THEN FormatInt(ToInt64(value))
    ELSE FormatFloat(ToFloat64(value), field.decimals)

\* lines 267-310
formatValueForCSV(value, field) ==
    IF value.kind = "nil" THEN << >>
    ELSE CASE field.type = "C" -> ToTrimmedString(value)
           [] field.type = "N" -> FormatNumeric(value, field)
           [] field.type = "F" -> FormatFloat(ToFloat64(value), -1)
           [] field.type = "L" -> IF ToBool(value) THEN <<"t", "r", "u", "e">>
                                  ELSE <<"f", "a", "l", "s", "e">>
           [] field.type = "D" -> IF ToTime(value) = ZeroTime THEN << >>
                                  ELSE FormatDate(ToTime(value))
           [] field.type = "T" -> IF ToTime(value) = ZeroTime THEN << >>
                                  ELSE FormatDateTime(ToTime(value))
           [] field.type = "M" -> ToString(value)
           [] field.type = "I" -> FormatInt(ToInt64(value))
           [] field.type = "B" -> FormatFloat(ToFloat64(value), -1)
           [] field.type = "Y" -> FormatFloat(ToFloat64(value), 4)

FmtInit == MainInit /\ ExpInit /\ FmtIdle

\* line 248: a field value and its header reach formatValueForCSV
FmtCall ==
    /\ fmtPc = "idle"
    /\ \E v \in Values, fh \in FieldHeaders :
         /\ fmtValue' = v
         /\ fmtField' = fh
    /\ fmtPc' = "called"
    /\ UNCHANGED <<fmtOut, mainVars, expVars>>

\* lines 267-310: it returns the export form
FmtReturn ==
    /\ fmtPc = "called"
    /\ fmtOut' = formatValueForCSV(fmtValue, fmtField)
    /\ fmtPc' = "returned"
    /\ UNCHANGED <<fmtValue, fmtField, mainVars, expVars>>

FmtNext == FmtCall \/ FmtReturn

SpecFmt == FmtInit /\ [][FmtNext]_vars

\* ================================================================ claims
Range(q) == {q[n] : n \in 1 .. Len(q)}
IsPrefix(p, q) == Len(p) <= Len(q) /\ SubSeq(q, 1, Len(p)) = p
IsData(c) == c[1] = "R"
DataRows(q) == SelectSeq(q, IsData)

\* exportToCSV was called and has returned (its deferred calls have run)
ExportRan      == fileState # "none"
ExportReturned ==
    /\ expErr # "none"
    /\ pc \in {"returned", "fields", "display", "nav", "done", "exit"}

\* One row for each record that is fetched and not deleted, in index order.
RECURSIVE LiveRows(_, _)
LiveRows(recs, n) ==
    IF n = 0 THEN << >>
    ELSE LiveRows(recs, n - 1) \o (IF recs[n] = "ok" THEN DataRow(n - 1) ELSE << >>)
ExpectedRows == LiveRows(records, Len(records))

\* C1: with no sink write failure the file holds, after the export, the
\* header row and then exactly one row per record whose fetch succeeded and
\* whose deletion flag is clear, in ascending index order; at no time does
\* the sink hold a row of a deleted record or anything before the header.
C1_HeaderThenLiveRows ==
    /\ ExportRan =>
         /\ IsPrefix(file \o buf, HeaderRow(hdrLen) \o ExpectedRows)
         /\ \A k \in 0 .. Len(records) - 1 :
              records[k + 1] = "deleted" => <<"R", k>> \notin Range(file \o buf)
    /\ (ExportRan /\ ExportReturned /\ ~bufErr) =>
         /\ expErr = "nil"
         /\ file = HeaderRow(hdrLen) \o ExpectedRows

C1_Witness ==
    /\ ExportRan /\ ExportReturned /\ ~bufErr
    /\ \E a, b, c \in 1 .. Len(records) :
         records[a] = "deleted" /\ records[b] = "fail" /\ records[c] = "ok"
    /\ DataRows(file) # << >>

\* C2: the record count of the success message is the number of data rows
\* written to the sink (deleted and unreadable records are not counted); the
\* case of a failed write of the file is C3's and is left out here.
C2_ReportedCountIsRowsWritten ==
    (reportedCount # -1 /\ ~bufErr) =>
        /\ reportedCount = Len(DataRows(file))
        /\ reportedCount = processedRecords

\* C3: a failed write of the file during the export, wherever it happens
\* (the flush of the buffered writer included), makes exportToCSV return an
\* error and the process exit with a non-zero status; nothing is fetched or
\* written after the failure.
C3_WriteFailureIsFatal ==
    /\ (ExportRan /\ ExportReturned /\ bufErr) => expErr \in {"header", "row"}
    /\ (ExportRan /\ pc = "exit" /\ bufErr) => exit = 1
    /\ (pc = "loop") => ~bufErr

\* The failed fetches of the export loop
FailedFetches == {k \in Range(fetched) : RecordAt(k) = "fail"}
Reported(k)   == <<"logExportReadErr", k>> \in Range(console)

\* What C4 says of a failed fetch apart from its report: no row for k, the
\* loop goes on to k+1, and without a sink write failure the export returns
\* nil with every other live record written.
FetchFailureTolerated(k) ==
    /\ <<"R", k>> \notin Range(file \o buf)
    /\ (k + 1 < totalRecords) => (k + 1) \in Range(fetched)
    /\ ~bufErr => (expErr = "nil" /\ DataRows(file) = ExpectedRows)

\* C4 as written: a failed fetch is tolerated and is reported where it occurs.
C4_Original ==
    (ExportRan /\ ExportReturned) =>
        \A k \in FailedFetches : FetchFailureTolerated(k) /\ Reported(k)

\* C4 as amended: a failed fetch is tolerated; it is reported where it occurs
\* exactly when the export is not silent.
C4_FetchFailureNonFatal ==
    (ExportRan /\ ExportReturned) =>
        \A k \in FailedFetches : FetchFailureTolerated(k) /\ (Reported(k) <=> ~noDisplay)

C4_Witness ==
    /\ ExportRan /\ ExportReturned /\ expErr = "nil" /\ noDisplay
    /\ FailedFetches # {}
    /\ DataRows(file) # << >>

\* C5: the sink file is open only inside exportToCSV; on every return path
\* (normal, header write failure, row write failure) it is closed.
C5_SinkReleased ==
    /\ fileState = "open" => pc \in {"header", "loop", "flush", "close"}
    /\ (ExportRan /\ ExportReturned) => fileState = "closed"

C5_Witness ==
    /\ pc = "returned" /\ expErr = "row" /\ fileState = "closed" /\ file # << >>

\* C6: with --no-display nothing is narrated on the console (the fatal
\* diagnostics of log.Fatalf apart).
C6_NoDisplayIsSilent ==
    noDisplay =>
        \A n \in 1 .. Len(console) : console[n][1] \in {"fatalOpen", "fatalExport"}

\* C7: without an encoding argument the source is opened with the
\* Windows-1250 decoder, the one an unsupported encoding falls back to.
C7_DefaultIsWin1250 ==
    decoder # "none" =>
        /\ ~encGiven => decoder = "win1250"
        /\ encoding \notin {"big5", "utf8", "win1250"} => decoder = "win1250"

\* The export form has exactly s digits after its one decimal point.
HasScale(out, s) ==
    \E p \in 1 .. Len(out) :
        /\ out[p] = "."
        /\ Len(out) - p = s
        /\ p > 1
        /\ \A n \in 1 .. Len(out) :
             n # p => (IsDigit(out[n]) \/ (n = 1 /\ out[n] = "-" /\ p > 2))
\* The export form is a base-10 integer without a decimal point.
IsInteger(out) ==
    /\ out # << >>
    /\ \A n \in 1 .. Len(out) :
         IsDigit(out[n]) \/ (n = 1 /\ out[n] = "-" /\ Len(out) > 1)

NumericCase ==
    fmtPc = "returned" /\ fmtField.type = "N" /\ fmtValue.kind # "nil"
FormsAtScale ==
    IF fmtField.decimals > 0 THEN HasScale(fmtOut, fmtField.decimals)
    ELSE IsInteger(fmtOut)

\* C8 as written: for every non-nil value of a Numeric field the export form
\* has exactly the declared scale s > 0 of digits after the decimal point,
\* and is an integer without a decimal point for scale 0.
C8_Original == NumericCase => FormsAtScale

\* C8 as amended: the same for every non-nil value whose float64 is finite
\* (NaN and the infinities export as "NaN", "+Inf", "-Inf").
C8_NumericScale ==
    (NumericCase /\ (fmtField.decimals > 0 => ToFloat64(fmtValue).class = "fin"))
        => FormsAtScale

C8_Witness ==
    /\ NumericCase /\ fmtField.decimals = 3 /\ fmtValue.kind = "float"
    /\ fmtValue.f.class = "fin" /\ fmtValue.f.mant = 9
    /\ fmtOut = <<"1", ".", "1", "2", "5">>

\* The fetches of the export loop so far: ascending, each below the count
\* read before the loop, none twice.
C9_Inv ==
    /\ \A m, n \in 1 .. Len(fetched) : m < n => fetched[m] < fetched[n]
    /\ \A n \in 1 .. Len(fetched) : fetched[n] < totalRecords
    /\ Len(fetched) <= totalRecords
    /\ pc = "loop" => (i <= totalRecords /\ totalRecords = NumRecords
                       /\ fetched = [n \in 1 .. i |-> n - 1])
\* One turn of the loop: the index goes up by one, unwrapped; the count stays.
C9_Step ==
    (pc = "loop" /\ pc' = "loop") => (i' = i + 1 /\ totalRecords' = totalRecords)

\* C9: the record count is read once; the loop fetches every index at most
\* once, in strictly ascending order, below the count, without a retry; the
\* index goes up by one each turn without wrapping, so the export ends after
\* at most totalRecords fetches.
C9_LoopFetchesOnceAscending ==
    /\ []C9_Inv
    /\ [][C9_Step]_vars
    /\ (pc = "loop") ~> ExportReturned

C9_Witness ==
    /\ pc = "flush" /\ expErr = "nil"
    /\ totalRecords = MaxU /\ i = MaxU /\ Len(fetched) = MaxU
    /\ \E n \in 1 .. Len(records) : records[n] = "fail"

\* C10: on every return path after the writer was created the deferred Flush
\* runs before the deferred Close, never on a closed file, and after a
\* return of nil every row the writer accepted is in the file.
C10_FlushBeforeCloseAllRowsOnDisk ==
    /\ (ExportRan /\ ExportReturned) => deferLog = <<"flush", "close">>
    /\ ~flushOnClosed
    /\ (ExportRan /\ ExportReturned /\ expErr = "nil") => file = accepted
====
